---- MODULE Spec2Model ----
(***************************************************************************)
(* Sky-Planner: the weather-derived recommendation engine of index.js.     *)
(*                                                                         *)
(* getWeatherData turns a provider response into a Reading (or throws),    *)
(* and calculateRiskLevel, generatePackingList and generateTimeSlots       *)
(* derive the risk level, the packing list and the time slots from it.     *)
(*                                                                         *)
(* Numbers.  A JavaScript number is modelled in tenths: the integer 215    *)
(* stands for 21.5, 50 for 5.  A value that may be undefined is the record *)
(* [def, n]; the result of parseInt is the record [nan, n] with n a whole  *)
(* number.  A template string `${v}suffix` is the record [v, suffix], so   *)
(* that parseInt reads back what the formatting wrote.                     *)
(***************************************************************************)
EXTENDS Integers, Sequences, FiniteSets, TLC

VARIABLES
    pc,           \* where the caller is: "idle", "fetched" (a Reading was
                  \* returned), "failed" (the call threw), "derived"
    response,     \* what fetch and response.json() gave (index.js:181-192)
    result,       \* how getWeatherData ended (index.js:212-228)
    toasts,       \* the messages handed to showErrorMessage (index.js:643)
    riskLevel,    \* updatedEvent.riskLevel (index.js:515)
    packingList,  \* updatedEvent.packingList (index.js:516)
    timeSlots,    \* updatedEvent.timeSlots (index.js:517)
    events,       \* the global events list, by event id (index.js:7)
    currentEventId, \* the global currentEventId, 0 for null (index.js:8)
    modal,        \* the edit modal: shown or not, and the event object the
                  \* Save handler closes over (index.js:435, 491, 494)
    saves         \* the executions of the Save handler, one per click, in
                  \* click order, with the locals of each (index.js:494-545)

\* the variables of the one-call machine and those of the edit machine;
\* toasts belongs to both
engineVars == <<pc, response, result, riskLevel, packingList, timeSlots>>

editVars == <<events, currentEventId, modal, saves>>

vars == <<pc, response, result, toasts, riskLevel, packingList, timeSlots,
          events, currentEventId, modal, saves>>

----------------------------------------------------------------------------
(* Bounds of the model *)

\* half-width, in whole units, of the window of values drawn around every
\* threshold of the engine
Delta == 1

\* how far, in whole units, the raw uv_index values reach below 0 and
\* above 11
UvSpan == 1

\* how many clicks on Save a behaviour of the edit machine holds
MaxSaves == 2

----------------------------------------------------------------------------
(* JavaScript values *)

Undefined == [def |-> FALSE, n |-> 0]

Num(x) == [def |-> TRUE, n |-> x]

NoString == [def |-> FALSE, s |-> ""]

Str(s) == [def |-> TRUE, s |-> s]

\* a number is falsy when it is undefined or 0; a string when it is
\* undefined or empty
FalsyNum(v) == ~v.def \/ v.n = 0

FalsyStr(v) == ~v.def \/ v.s = ""

\* v || d
OrNum(v, d) == IF FalsyNum(v) THEN Num(d) ELSE v

OrStr(v, d) == IF FalsyStr(v) THEN Str(d) ELSE v

\* `${v}suffix`
Template(v, suffix) == [v |-> v, suffix |-> suffix]

NaN == [nan |-> TRUE, n |-> 0]

\* the whole part of a number given in tenths, cut toward zero
Trunc(x) == IF x >= 0 THEN x \div 10 ELSE -((-x) \div 10)

\* parseInt of a template string: the leading whole number of the text, NaN
\* when the text starts with "undefined"
ParseInt(text) ==
    IF text.v.def THEN [nan |-> FALSE, n |-> Trunc(text.v.n)] ELSE NaN

\* a > k and a < k on a parseInt result: every comparison with NaN is false
GT(a, k) == ~a.nan /\ a.n > k

LT(a, k) == ~a.nan /\ a.n < k

\* Math.round of a number given in tenths: the nearest whole number, halves
\* going up
MathRound(x) == (x + 5) \div 10

MathMax(a, b) == IF a >= b THEN a ELSE b

MathMin(a, b) == IF a <= b THEN a ELSE b

\* getUVDescription with < in place of <=
getUVDescriptionStrict(uvIndex) ==
    IF uvIndex < 2 THEN "Low"
    ELSE IF uvIndex < 5 THEN "Moderate"
    ELSE IF uvIndex < 7 THEN "High"
    ELSE IF uvIndex < 10 THEN "Very High"
    ELSE "Extreme"

----------------------------------------------------------------------------
(* The recommendation engine *)

getUVDescription(uvIndex) ==
    IF uvIndex <= 2 THEN "Low"
    ELSE IF uvIndex <= 5 THEN "Moderate"
    ELSE IF uvIndex <= 7 THEN "High"
    ELSE IF uvIndex <= 10 THEN "Very High"
    ELSE "Extreme"

\* TemperatureScore with the two tests merged in the wrong order: the mild
\* band is tested first and hides the severe one
TemperatureScoreMerged(temp) ==
    IF GT(temp, 30) \/ LT(temp, 10) THEN 1
    ELSE IF GT(temp, 35) \/ LT(temp, 5) THEN 2
    ELSE 0

\* the score the temperature adds: if (temp > 35 || temp < 5) 2,
\* else if (temp > 30 || temp < 10) 1
TemperatureScore(temp) ==
    IF GT(temp, 35) \/ LT(temp, 5) THEN 2
    ELSE IF GT(temp, 30) \/ LT(temp, 10) THEN 1
    ELSE 0

\* PrecipitationScore with >= 70 in place of > 70
PrecipitationScoreInclusive(precip) ==
    IF GT(precip, 69) THEN 2
    ELSE IF GT(precip, 30) THEN 1
    ELSE 0

\* the score the precipitation adds
PrecipitationScore(precip) ==
    IF GT(precip, 70) THEN 2
    ELSE IF GT(precip, 30) THEN 1
    ELSE 0

\* WindScore with >= 25 in place of > 25
WindScoreInclusive(wind) ==
    IF GT(wind, 24) THEN 2
    ELSE IF GT(wind, 15) THEN 1
    ELSE 0

\* WindScore with the moderate band closed below 25, which leaves 25 itself
\* without a score
WindScoreGap(wind) ==
    IF GT(wind, 25) THEN 2
    ELSE IF GT(wind, 15) /\ LT(wind, 25) THEN 1
    ELSE 0

\* the score the wind adds
WindScore(wind) ==
    IF GT(wind, 25) THEN 2
    ELSE IF GT(wind, 15) THEN 1
    ELSE 0

\* RiskScore with a fourth factor, a uvIndex above 7
RiskScoreWithUv(weather) ==
    TemperatureScore(ParseInt(weather.temperature))
    + PrecipitationScore(ParseInt(weather.precipitation))
    + WindScore(ParseInt(weather.windSpeed))
    + (IF GT(ParseInt(weather.uvIndex), 7) THEN 1 ELSE 0)

\* the value of the local riskScore when the three factors have been added
RiskScore(weather) ==
    TemperatureScore(ParseInt(weather.temperature))
    + PrecipitationScore(ParseInt(weather.precipitation))
    + WindScore(ParseInt(weather.windSpeed))

\* LevelOfScore with > 3 in place of >= 3
LevelOfScoreStrict(riskScore) ==
    IF riskScore > 3 THEN "high"
    ELSE IF riskScore >= 1 THEN "medium"
    ELSE "low"

\* LevelOfScore with high from a score of 2
LevelOfScoreFromTwo(riskScore) ==
    IF riskScore >= 2 THEN "high"
    ELSE IF riskScore >= 1 THEN "medium"
    ELSE "low"

\* the level a final riskScore is turned into
LevelOfScore(riskScore) ==
    IF riskScore >= 3 THEN "high"
    ELSE IF riskScore >= 1 THEN "medium"
    ELSE "low"

\* calculateRiskLevel reading the weather of the event on display, a global,
\* when one is on display, in place of its argument
calculateRiskLevelOfDisplayed(weather) ==
    LevelOfScore(RiskScore(IF currentEventId \in DOMAIN events
                           THEN events[currentEventId].weather
                           ELSE weather))

calculateRiskLevel(weather) == LevelOfScore(RiskScore(weather))

\* generatePackingList with the essentials pushed after the weather items
generatePackingListWaterLast(weather) ==
    LET precip  == ParseInt(weather.precipitation)
        temp    == ParseInt(weather.temperature)
        uvIndex == ParseInt(weather.uvIndex)
        wind    == ParseInt(weather.windSpeed)
    IN  (IF GT(precip, 20) THEN <<"Umbrella", "Waterproof jacket">> ELSE <<>>)
        \o (IF LT(temp, 15) THEN <<"Warm jacket", "Blanket">> ELSE <<>>)
        \o (IF GT(temp, 25) THEN <<"Hat", "Light clothing">> ELSE <<>>)
        \o (IF GT(uvIndex, 5) THEN <<"Sunscreen", "Sunglasses">> ELSE <<>>)
        \o (IF GT(wind, 15) THEN <<"Windbreaker">> ELSE <<>>)
        \o <<"Water bottle">>

\* generatePackingList with >= in place of > in the wind and uv rules
generatePackingListInclusive(weather) ==
    LET precip  == ParseInt(weather.precipitation)
        temp    == ParseInt(weather.temperature)
        uvIndex == ParseInt(weather.uvIndex)
        wind    == ParseInt(weather.windSpeed)
    IN  <<"Water bottle">>
        \o (IF GT(precip, 20) THEN <<"Umbrella", "Waterproof jacket">> ELSE <<>>)
        \o (IF LT(temp, 15) THEN <<"Warm jacket", "Blanket">> ELSE <<>>)
        \o (IF GT(temp, 25) THEN <<"Hat", "Light clothing">> ELSE <<>>)
        \o (IF GT(uvIndex, 4) THEN <<"Sunscreen", "Sunglasses">> ELSE <<>>)
        \o (IF GT(wind, 14) THEN <<"Windbreaker">> ELSE <<>>)

\* generatePackingList with a wind rule that pushes a second waterproof
\* jacket
generatePackingListRepeating(weather) ==
    LET precip  == ParseInt(weather.precipitation)
        temp    == ParseInt(weather.temperature)
        uvIndex == ParseInt(weather.uvIndex)
        wind    == ParseInt(weather.windSpeed)
    IN  <<"Water bottle">>
        \o (IF GT(precip, 20) THEN <<"Umbrella", "Waterproof jacket">> ELSE <<>>)
        \o (IF LT(temp, 15) THEN <<"Warm jacket", "Blanket">> ELSE <<>>)
        \o (IF GT(temp, 25) THEN <<"Hat", "Light clothing">> ELSE <<>>)
        \o (IF GT(uvIndex, 5) THEN <<"Sunscreen", "Sunglasses">> ELSE <<>>)
        \o (IF GT(wind, 15) THEN <<"Waterproof jacket", "Windbreaker">> ELSE <<>>)

generatePackingList(weather) ==
    LET precip  == ParseInt(weather.precipitation)
        temp    == ParseInt(weather.temperature)
        uvIndex == ParseInt(weather.uvIndex)
        wind    == ParseInt(weather.windSpeed)
    IN  <<"Water bottle">>
        \o (IF GT(precip, 20) THEN <<"Umbrella", "Waterproof jacket">> ELSE <<>>)
        \o (IF LT(temp, 15) THEN <<"Warm jacket", "Blanket">> ELSE <<>>)
        \o (IF GT(temp, 25) THEN <<"Hat", "Light clothing">> ELSE <<>>)
        \o (IF GT(uvIndex, 5) THEN <<"Sunscreen", "Sunglasses">> ELSE <<>>)
        \o (IF GT(wind, 15) THEN <<"Windbreaker">> ELSE <<>>)

\* the five candidate slots of generateTimeSlots
CandidateSlots(baseRisk) ==
    << [time |-> "10:00 AM", risk |-> "low"],
       [time |-> "12:00 PM", risk |-> baseRisk],
       [time |-> "2:00 PM", risk |-> baseRisk],
       [time |-> "4:00 PM",
        risk |-> IF baseRisk = "low" THEN "medium" ELSE "high"],
       [time |-> "6:00 PM", risk |-> "low"] >>

\* generateTimeSlots without the slice: all five candidates are returned
generateTimeSlotsAll(weather) ==
    CandidateSlots(calculateRiskLevel(weather))

\* generateTimeSlots with slice(1, 4): the window is one slot late
generateTimeSlotsShifted(weather) ==
    SubSeq(CandidateSlots(calculateRiskLevel(weather)), 2, 4)

generateTimeSlots(weather) ==
    LET baseRisk == calculateRiskLevel(weather)
        slots == CandidateSlots(baseRisk)
    IN  SubSeq(slots, 1, 3)

----------------------------------------------------------------------------
(* The weather normalizer *)

\* NormalizeUv without the lower clamp
NormalizeUvNoFloor(uv_index) ==
    MathMin(MathRound(OrNum(uv_index, 50).n), 11)

\* Math.min(Math.max(Math.round(data.current.uv_index || 5), 1), 11)
NormalizeUv(uv_index) ==
    MathMin(MathMax(MathRound(OrNum(uv_index, 50).n), 1), 11)

\* FirstDescription taking the last entry of the list
LastDescription(weather_descriptions) ==
    IF weather_descriptions.def /\ Len(weather_descriptions.list) > 0
    THEN Str(weather_descriptions.list[Len(weather_descriptions.list)])
    ELSE NoString

\* data.current.weather_descriptions?.[0]
FirstDescription(weather_descriptions) ==
    IF weather_descriptions.def /\ Len(weather_descriptions.list) > 0
    THEN Str(weather_descriptions.list[1])
    ELSE NoString

\* the object getWeatherData returns for a payload with a current section
FormatReading(current) ==
    LET uvIndex == NormalizeUv(current.uv_index)
    IN  [ temperature   |-> Template(current.temperature, <<"°C">>),
          condition     |-> OrStr(FirstDescription(current.weather_descriptions),
                                  "Unknown").s,
          precipitation |-> Template(OrNum(current.precip, 0), <<"%">>),
          windSpeed     |-> Template(OrNum(current.wind_speed, 0), <<" km/h">>),
          uvIndex       |-> Template(Num(10 * uvIndex),
                                     <<" (", getUVDescription(uvIndex), ")">>) ]

\* how a call ends: return value (a one-element sequence) or thrown error,
\* and the messages it handed to showErrorMessage on the way
Return(value, shown) ==
    [threw |-> FALSE, value |-> <<value>>, error |-> <<>>, shown |-> shown]

Throw(error, shown) ==
    [threw |-> TRUE, value |-> <<>>, error |-> error, shown |-> shown]

GenericFetchMessage ==
    <<"Failed to fetch weather data. Please check your API key and connection.">>

\* TryGetWeatherData with the current section looked at before the error
\* object
TryGetWeatherDataCurrentFirst(resp) ==
    IF resp.fetch = "rejected"
    THEN Throw(<<"Failed to fetch">>, <<>>)
    ELSE IF ~resp.ok
    THEN Throw(<<"API responded with status ", resp.status>>, <<>>)
    ELSE IF ~resp.json
    THEN Throw(<<"Unexpected token in JSON">>, <<>>)
    ELSE IF resp.data.current.def
    THEN Return(FormatReading(resp.data.current), <<>>)
    ELSE IF resp.data.error.def
    THEN Throw(<<OrStr(resp.data.error.info, "Unknown API error").s>>,
               << <<"Weather API error: ",
                    OrStr(resp.data.error.info, "Unknown error").s>> >>)
    ELSE Throw(<<"Invalid response format from weather API">>, <<>>)

\* TryGetWeatherData with the status looked at after the body
TryGetWeatherDataBodyFirst(resp) ==
    IF resp.fetch = "rejected"
    THEN Throw(<<"Failed to fetch">>, <<>>)
    ELSE IF resp.json /\ resp.data.error.def
    THEN Throw(<<OrStr(resp.data.error.info, "Unknown API error").s>>,
               << <<"Weather API error: ",
                    OrStr(resp.data.error.info, "Unknown error").s>> >>)
    ELSE IF resp.json /\ resp.data.current.def
    THEN Return(FormatReading(resp.data.current), <<>>)
    ELSE IF ~resp.ok
    THEN Throw(<<"API responded with status ", resp.status>>, <<>>)
    ELSE IF ~resp.json
    THEN Throw(<<"Unexpected token in JSON">>, <<>>)
    ELSE Throw(<<"Invalid response format from weather API">>, <<>>)

\* the body of the try block
TryGetWeatherData(resp) ==
    IF resp.fetch = "rejected"
    THEN Throw(<<"Failed to fetch">>, <<>>)
    ELSE IF ~resp.ok
    THEN Throw(<<"API responded with status ", resp.status>>, <<>>)
    ELSE IF ~resp.json
    THEN Throw(<<"Unexpected token in JSON">>, <<>>)
    ELSE IF resp.data.error.def
    THEN Throw(<<OrStr(resp.data.error.info, "Unknown API error").s>>,
               << <<"Weather API error: ",
                    OrStr(resp.data.error.info, "Unknown error").s>> >>)
    ELSE IF resp.data.current.def
    THEN Return(FormatReading(resp.data.current), <<>>)
    ELSE Throw(<<"Invalid response format from weather API">>, <<>>)

\* getWeatherData with a catch block that throws the error again without
\* showing anything
getWeatherDataSilent(resp) ==
    TryGetWeatherData(resp)

\* the catch block: show the generic message, throw the error again
getWeatherData(resp) ==
    LET r == TryGetWeatherData(resp)
    IN  IF r.threw
        THEN Throw(r.error, Append(r.shown, GenericFetchMessage))
        ELSE r

----------------------------------------------------------------------------
(* The provider responses the model draws from *)

\* the whole values within Delta of a threshold, in tenths
Window(thresholds) ==
    {10 * (th + d) : th \in thresholds, d \in (0 - Delta)..Delta}

\* temperatures around 5, 10, 15, 25, 30, 35, some fractional and extreme
\* ones, 20 and 38, and the field left out
TemperatureValues ==
    {Undefined} \cup
    {Num(x) : x \in Window({5, 10, 15, 25, 30, 35})
                    \cup {-200, -5, 49, 200, 355, 380, 500}}

\* precipitation around 20, 30, 70, and 0, 25, 70.5, 80, 100
PrecipValues ==
    {Undefined} \cup
    {Num(x) : x \in Window({20, 30, 70}) \cup {0, 250, 705, 800, 1000}}

\* wind speed around 15, 25, and 0, 5, 25.5, 30
WindValues ==
    {Undefined} \cup {Num(x) : x \in Window({15, 25}) \cup {0, 50, 255, 300}}

\* every raw uv_index from -UvSpan to 11 + UvSpan in steps of a tenth
UvValues ==
    {Undefined} \cup {Num(x) : x \in (0 - 10 * UvSpan)..(10 * (11 + UvSpan))}

NoList == [def |-> FALSE, list |-> <<>>]

DescriptionValues ==
    {NoList} \cup
    {[def |-> TRUE, list |-> l] :
        l \in {<<>>, <<"">>, <<"Sunny">>, <<"Partly cloudy", "Windy">>}}

NoCurrent ==
    [def |-> FALSE, temperature |-> Undefined, weather_descriptions |-> NoList,
     precip |-> Undefined, wind_speed |-> Undefined, uv_index |-> Undefined]

\* current sections that cover the thresholds of the classifier and of the
\* packing list
WeatherCurrents ==
    [def : {TRUE}, temperature : TemperatureValues,
     weather_descriptions : {[def |-> TRUE, list |-> <<"Sunny">>]},
     precip : PrecipValues, wind_speed : WindValues,
     uv_index : {Undefined, Num(10), Num(30), Num(50), Num(60), Num(90)}]

\* current sections that cover the raw uv_index and the descriptions
UvCurrents ==
    [def : {TRUE}, temperature : {Undefined, Num(200)},
     weather_descriptions : DescriptionValues,
     precip : {Undefined, Num(250)}, wind_speed : {Undefined, Num(50)},
     uv_index : UvValues]

Currents == WeatherCurrents \cup UvCurrents

NoError == [def |-> FALSE, info |-> NoString]

\* error objects: with a message, with an empty one, without one
ErrorObjects ==
    {[def |-> TRUE, info |-> i] : i \in {Str("Invalid access key"), Str(""), NoString}}

SampleCurrent ==
    [def |-> TRUE, temperature |-> Num(200),
     weather_descriptions |-> [def |-> TRUE, list |-> <<"Sunny">>],
     precip |-> Num(0), wind_speed |-> Num(100), uv_index |-> Num(30)]

\* parsed bodies: a current section alone, an error object with or without
\* a current section, and neither
Payloads ==
    [error : {NoError}, current : Currents \cup {NoCurrent}]
    \cup [error : ErrorObjects, current : {NoCurrent, SampleCurrent}]

NoPayload == [error |-> NoError, current |-> NoCurrent]

\* bodies a response with a non-success status can carry: an error object,
\* a current section
BodiesOfFailures ==
    { [error |-> [def |-> TRUE, info |-> Str("Invalid access key")],
       current |-> NoCurrent],
      [error |-> NoError, current |-> SampleCurrent] }

\* what fetch and response.json() can give: a rejected fetch, a non-success
\* status, a body that is not JSON, a parsed body
Responses ==
    {[fetch |-> "rejected", ok |-> FALSE, status |-> "0", json |-> FALSE,
      data |-> NoPayload]}
    \cup [fetch : {"resolved"}, ok : {FALSE}, status : {"401", "500"},
          json : {FALSE}, data : {NoPayload}]
    \cup [fetch : {"resolved"}, ok : {FALSE}, status : {"401"},
          json : {TRUE}, data : BodiesOfFailures]
    \cup [fetch : {"resolved"}, ok : {TRUE}, status : {"200"},
          json : {FALSE}, data : {NoPayload}]
    \cup [fetch : {"resolved"}, ok : {TRUE}, status : {"200"},
          json : {TRUE}, data : Payloads]

NoResponse ==
    [fetch |-> "none", ok |-> FALSE, status |-> "0", json |-> FALSE,
     data |-> NoPayload]

NoResult == [threw |-> FALSE, value |-> <<>>, error |-> <<>>, shown |-> <<>>]

----------------------------------------------------------------------------
(* The events the edit machine starts from *)

\* the ids of the stored events
EventIds == {1}

\* the stored events as loaded: the form fields, and the weather-derived
\* fields made when the event was created, from a mild Reading
InitialEvents ==
    [id \in EventIds |->
        [ name |-> "Picnic", location |-> "Nairobi",
          date |-> "2030-06-01", time |-> "10:00",
          weather |-> FormatReading(SampleCurrent),
          riskLevel |-> "low",
          packingList |-> <<"Water bottle">>,
          timeSlots |-> << [time |-> "10:00 AM", risk |-> "low"],
                           [time |-> "12:00 PM", risk |-> "low"],
                           [time |-> "2:00 PM", risk |-> "low"] >> ]]

NoEvent == [id |-> 0, name |-> "", location |-> "", date |-> "", time |-> ""]

ModalClosed == [open |-> FALSE, event |-> NoEvent]

----------------------------------------------------------------------------
(* The state machine: one fetch, then the three derivations *)

Init ==
    /\ pc = "idle"
    /\ response = NoResponse
    /\ result = NoResult
    /\ toasts = <<>>
    /\ riskLevel = "none"
    /\ packingList = <<>>
    /\ timeSlots = <<>>
    /\ events = InitialEvents
    /\ currentEventId = 0
    /\ modal = ModalClosed
    /\ saves = <<>>

\* a call of getWeatherData from the request to its return or throw
CallGetWeatherData ==
    /\ pc = "idle"
    /\ \E resp \in Responses :
        LET r == getWeatherData(resp)
        IN  /\ response' = resp
            /\ result' = r
            /\ toasts' = toasts \o r.shown
            /\ pc' = IF r.threw THEN "failed" ELSE "fetched"
    /\ UNCHANGED <<riskLevel, packingList, timeSlots>>
    /\ UNCHANGED editVars

\* the derivations the caller runs on the Reading the call returned
Derive ==
    /\ pc = "fetched"
    /\ riskLevel' = calculateRiskLevel(result.value[1])
    /\ packingList' = generatePackingList(result.value[1])
    /\ timeSlots' = generateTimeSlots(result.value[1])
    /\ pc' = "derived"
    /\ UNCHANGED <<response, result, toasts>>
    /\ UNCHANGED editVars

Next == CallGetWeatherData \/ Derive

Spec == Init /\ [][Next]_vars

----------------------------------------------------------------------------
(* The edit modal and its Save handler *)

\* the form of the modal, filled from the event
FormOf(event) ==
    [name |-> event.name, location |-> event.location,
     date |-> event.date, time |-> event.time]

\* what the user can submit in a modal filled from the event: the form
\* untouched, a new name, a new time, both, a new location, a new date,
\* both, a blank name, a date in the past, a blank location, no date, no
\* time, the very instant of the click, two hours after it
Forms(event) ==
    LET base == FormOf(event)
    IN  { base,
          [base EXCEPT !.name = "Party"],
          [base EXCEPT !.time = "14:00"],
          [base EXCEPT !.name = "Party", !.time = "14:00"],
          [base EXCEPT !.location = "Mombasa"],
          [base EXCEPT !.date = "2030-06-03"],
          [base EXCEPT !.location = "Mombasa", !.date = "2030-06-03"],
          [base EXCEPT !.name = "  "],
          [base EXCEPT !.date = "2020-01-01"],
          [base EXCEPT !.location = " "],
          [base EXCEPT !.date = ""],
          [base EXCEPT !.time = ""],
          [base EXCEPT !.date = "2026-11-03", !.time = "12:00"],
          [base EXCEPT !.date = "2026-11-03", !.time = "14:00"] }

\* String.prototype.trim on the strings of the forms
Trim(str) == IF str \in {"", " ", "  "} THEN "" ELSE str

\* the instant new Date(date + "T" + time) stands for, in hours
Instant(date, time) ==
    24 * (CASE date = "2020-01-01" -> 0
            [] date = "2026-11-03" -> 1
            [] date = "2030-06-01" -> 2
            [] date = "2030-06-02" -> 3
            [] date = "2030-06-03" -> 4)
    + (CASE time = "10:00" -> 10
         [] time = "12:00" -> 12
         [] time = "14:00" -> 14)

\* new Date() at the time of the click
Now == Instant("2026-11-03", "12:00")

\* validateForm with a test that lets the very instant of the click pass
validateFormNowAllowed(formData) ==
    IF Trim(formData.name) = ""
    THEN [ok |-> FALSE, shown |-> << <<"Please enter an event name">> >>]
    ELSE IF Trim(formData.location) = ""
    THEN [ok |-> FALSE, shown |-> << <<"Please enter a location">> >>]
    ELSE IF formData.date = ""
    THEN [ok |-> FALSE, shown |-> << <<"Please select a date">> >>]
    ELSE IF formData.time = ""
    THEN [ok |-> FALSE, shown |-> << <<"Please select a time">> >>]
    ELSE IF Instant(formData.date, formData.time) < Now
    THEN [ok |-> FALSE, shown |-> << <<"Please select a future date and time">> >>]
    ELSE [ok |-> TRUE, shown |-> <<>>]

\* validateForm: whether the form passes, and the message shown when not
validateForm(formData) ==
    IF Trim(formData.name) = ""
    THEN [ok |-> FALSE, shown |-> << <<"Please enter an event name">> >>]
    ELSE IF Trim(formData.location) = ""
    THEN [ok |-> FALSE, shown |-> << <<"Please enter a location">> >>]
    ELSE IF formData.date = ""
    THEN [ok |-> FALSE, shown |-> << <<"Please select a date">> >>]
    ELSE IF formData.time = ""
    THEN [ok |-> FALSE, shown |-> << <<"Please select a time">> >>]
    ELSE IF Instant(formData.date, formData.time) <= Now
    THEN [ok |-> FALSE, shown |-> << <<"Please select a future date and time">> >>]
    ELSE [ok |-> TRUE, shown |-> <<>>]

\* validateFormData, which the Save handler calls: the validation of the
\* form layer
validateFormData(formData) == validateForm(formData)

\* the updatedEvent object of a Save: the form fields, and the four
\* weather-derived fields once they are set (an empty sequence is a field the
\* object does not have)
UpdateOf(form) ==
    [ name |-> form.name, location |-> form.location,
      date |-> form.date, time |-> form.time,
      weather |-> <<>>, riskLevel |-> <<>>,
      packingList |-> <<>>, timeSlots |-> <<>> ]

\* updatedEvent with the weather and the three derivations set from the
\* Reading
WithWeather(updatedEvent, weatherData) ==
    [updatedEvent EXCEPT
        !.weather = <<weatherData>>,
        !.riskLevel = <<calculateRiskLevel(weatherData)>>,
        !.packingList = <<generatePackingList(weatherData)>>,
        !.timeSlots = <<generateTimeSlots(weatherData)>>]

\* LocationOrDateChanged with the date left out
LocationChanged(updatedEvent, event) ==
    updatedEvent.location # event.location

\* updatedEvent.location !== event.location || updatedEvent.date !== event.date
LocationOrDateChanged(updatedEvent, event) ==
    \/ updatedEvent.location # event.location
    \/ updatedEvent.date # event.date

\* the handler from the click to its first await: the validation, then the
\* call of getWeatherData when location or date changed, else the call of
\* updateEvent
OnSaveClick(event, form) ==
    LET updatedEvent == UpdateOf(form)
        save == [ event |-> event, updatedEvent |-> updatedEvent,
                  at |-> "rejected", fetches |-> 0, weatherData |-> <<>>,
                  updateCalls |-> 0, error |-> <<>> ]
    IN  IF ~validateFormData(form).ok
        THEN save
        ELSE IF LocationOrDateChanged(updatedEvent, event)
        THEN [save EXCEPT !.at = "fetching", !.fetches = 1]
        ELSE [save EXCEPT !.at = "updating", !.updateCalls = 1]

\* AfterFetch with a catch that goes on to updateEvent without the weather
AfterFetchSaveAnyway(save, r) ==
    IF r.threw
    THEN [save EXCEPT !.at = "updating", !.updateCalls = @ + 1,
                      !.error = r.error]
    ELSE [save EXCEPT
            !.weatherData = r.value,
            !.updatedEvent = WithWeather(@, r.value[1]),
            !.at = "updating",
            !.updateCalls = @ + 1]

\* AfterFetch with the derivations run on the event's old weather when the
\* call threw
AfterFetchDeriveStale(save, r) ==
    IF r.threw
    THEN [save EXCEPT
            !.updatedEvent = WithWeather(@, events[save.event.id].weather),
            !.at = "failed", !.error = r.error]
    ELSE [save EXCEPT
            !.weatherData = r.value,
            !.updatedEvent = WithWeather(@, r.value[1]),
            !.at = "updating",
            !.updateCalls = @ + 1]

\* AfterFetch with the submitted fields written into the event record the
\* handler closed over, before updateEvent is called
AfterFetchAssignsEvent(save, r) ==
    IF r.threw
    THEN [save EXCEPT !.at = "failed", !.error = r.error]
    ELSE [save EXCEPT
            !.event = [@ EXCEPT !.location = save.updatedEvent.location,
                                !.date = save.updatedEvent.date],
            !.weatherData = r.value,
            !.updatedEvent = WithWeather(@, r.value[1]),
            !.at = "updating",
            !.updateCalls = @ + 1]

\* the handler from the end of getWeatherData to its next await: on a
\* Reading the three derivations and the call of updateEvent, on a throw the
\* catch block
AfterFetch(save, r) ==
    IF r.threw
    THEN [save EXCEPT !.at = "failed", !.error = r.error]
    ELSE [save EXCEPT
            !.weatherData = r.value,
            !.updatedEvent = WithWeather(@, r.value[1]),
            !.at = "updating",
            !.updateCalls = @ + 1]

\* "Failed to update event: " + (err.message || "Please try again.")
CatchMessage(error) ==
    <<"Failed to update event: ">>
    \o (IF error = <<>> \/ error = <<"">> THEN <<"Please try again.">> ELSE error)

\* updateEvent: the update merged into the stored record, field by field
MergeUpdate(event, update) ==
    [ name |-> update.name, location |-> update.location,
      date |-> update.date, time |-> update.time,
      weather |-> IF update.weather = <<>> THEN event.weather
                  ELSE update.weather[1],
      riskLevel |-> IF update.riskLevel = <<>> THEN event.riskLevel
                    ELSE update.riskLevel[1],
      packingList |-> IF update.packingList = <<>> THEN event.packingList
                      ELSE update.packingList[1],
      timeSlots |-> IF update.timeSlots = <<>> THEN event.timeSlots
                    ELSE update.timeSlots[1] ]

StormCurrent ==
    [def |-> TRUE, temperature |-> Num(380),
     weather_descriptions |-> [def |-> TRUE, list |-> <<"Sunny">>],
     precip |-> Num(800), wind_speed |-> Num(300), uv_index |-> Num(90)]

\* the responses the edit machine draws from: two Readings, an error
\* object, a body without a current section, a non-success status
EditResponses ==
    [fetch : {"resolved"}, ok : {TRUE}, status : {"200"}, json : {TRUE},
     data : { [error |-> NoError, current |-> SampleCurrent],
              [error |-> NoError, current |-> StormCurrent],
              [error |-> [def |-> TRUE, info |-> Str("Invalid access key")],
               current |-> NoCurrent],
              NoPayload }]
    \cup {[fetch |-> "resolved", ok |-> FALSE, status |-> "500",
           json |-> FALSE, data |-> NoPayload]}

\* showEventDetails(eventId), from a click on View Details
ShowEventDetails ==
    /\ ~modal.open
    /\ \E id \in EventIds : currentEventId' = id
    /\ UNCHANGED <<events, modal, saves, toasts>>
    /\ UNCHANGED engineVars

\* showEditEventModal(eventId), from a click on the Edit button of the
\* event on display: the form is filled and the Save handler is set, closing
\* over the event found
ShowEditEventModal ==
    /\ ~modal.open
    /\ currentEventId \in EventIds
    /\ modal' = [ open |-> TRUE,
                  event |-> [ id |-> currentEventId,
                              name |-> events[currentEventId].name,
                              location |-> events[currentEventId].location,
                              date |-> events[currentEventId].date,
                              time |-> events[currentEventId].time ] ]
    /\ UNCHANGED <<events, currentEventId, saves, toasts>>
    /\ UNCHANGED engineVars

\* Cancel or the close button of the modal
DismissModal ==
    /\ modal.open
    /\ modal' = ModalClosed
    /\ UNCHANGED <<events, currentEventId, saves, toasts>>
    /\ UNCHANGED engineVars

\* a click on Save: the handler runs to its first await
SaveClick ==
    /\ modal.open
    /\ Len(saves) < MaxSaves
    /\ \E form \in Forms(modal.event) :
        /\ saves' = Append(saves, OnSaveClick(modal.event, form))
        /\ toasts' = toasts \o validateFormData(form).shown
    /\ UNCHANGED <<events, currentEventId, modal>>
    /\ UNCHANGED engineVars

\* the getWeatherData call of a Save ends: the handler runs on to the call
\* of updateEvent, or through its catch block
FetchSettles ==
    /\ \E i \in 1..Len(saves) :
        /\ saves[i].at = "fetching"
        /\ \E resp \in EditResponses :
            LET r == getWeatherData(resp)
            IN  /\ saves' = [saves EXCEPT ![i] = AfterFetch(@, r)]
                /\ toasts' = toasts \o r.shown
                               \o (IF r.threw THEN <<CatchMessage(r.error)>>
                                   ELSE <<>>)
    /\ UNCHANGED <<events, currentEventId, modal>>
    /\ UNCHANGED engineVars

\* the updateEvent call of a Save ends: the record is merged, the details
\* are shown again, the modal is hidden and the success message shown
UpdateSettles ==
    /\ \E i \in 1..Len(saves) :
        /\ saves[i].at = "updating"
        /\ events' = [events EXCEPT
                        ![saves[i].event.id] = MergeUpdate(@, saves[i].updatedEvent)]
        /\ currentEventId' = saves[i].event.id
        /\ saves' = [saves EXCEPT ![i].at = "done"]
    /\ modal' = ModalClosed
    /\ UNCHANGED toasts
    /\ UNCHANGED engineVars

NextEdit ==
    \/ ShowEventDetails
    \/ ShowEditEventModal
    \/ DismissModal
    \/ SaveClick
    \/ FetchSettles
    \/ UpdateSettles

SpecEdit == Init /\ [][NextEdit]_vars

----------------------------------------------------------------------------
(* Properties *)

\* a Reading has been returned
HasReading == pc \in {"fetched", "derived"}

\* the Reading the call returned
Reading == result.value[1]

\* the whole numbers calculateRiskLevel reads from the Reading
ReadTemp == ParseInt(Reading.temperature)

ReadPrecip == ParseInt(Reading.precipitation)

ReadWind == ParseInt(Reading.windSpeed)

\* the scores the three factors are to add, band by band
TempBand(t) ==
    CASE t < 5 \/ t > 35 -> 2
      [] (5 <= t /\ t < 10) \/ (30 < t /\ t <= 35) -> 1
      [] 10 <= t /\ t <= 30 -> 0

PrecipBand(p) ==
    CASE p > 70 -> 2
      [] 30 < p /\ p <= 70 -> 1
      [] p <= 30 -> 0

WindBand(w) ==
    CASE w > 25 -> 2
      [] 15 < w /\ w <= 25 -> 1
      [] w <= 15 -> 0

\* C1: for every integer temperature t the classifier adds 2 when t < 5 or
\* t > 35, 1 when that fails and t < 10 or t > 30, and 0 otherwise (5, 9, 31
\* and 35 score 1; 10 and 30 score 0), and the level it returns is the level
\* of that score plus the scores of precipitation and wind.
C1_TemperatureScore ==
    (pc = "derived" /\ ~ReadTemp.nan) =>
        /\ TemperatureScore(ReadTemp) = TempBand(ReadTemp.n)
        /\ ReadTemp.n \in {5, 9, 31, 35} => TemperatureScore(ReadTemp) = 1
        /\ ReadTemp.n \in {10, 30} => TemperatureScore(ReadTemp) = 0
        /\ riskLevel = LevelOfScore(TempBand(ReadTemp.n)
                                    + PrecipitationScore(ReadPrecip)
                                    + WindScore(ReadWind))

\* a temperature of 4 has been classified with nothing else scoring: the
\* severe band alone gives medium
C1_Witness ==
    /\ pc = "derived"
    /\ ~ReadTemp.nan /\ ReadTemp.n = 4
    /\ PrecipitationScore(ReadPrecip) = 0 /\ WindScore(ReadWind) = 0
    /\ riskLevel = "medium"

\* C2: for every integer precipitation p the classifier adds 2 when p > 70,
\* 1 when 30 < p <= 70 and 0 when p <= 30 (70 scores 1, 30 scores 0), and
\* the level it returns is the level of that score plus the other two.
C2_PrecipitationScore ==
    (pc = "derived" /\ ~ReadPrecip.nan) =>
        /\ PrecipitationScore(ReadPrecip) = PrecipBand(ReadPrecip.n)
        /\ ReadPrecip.n = 70 => PrecipitationScore(ReadPrecip) = 1
        /\ ReadPrecip.n = 30 => PrecipitationScore(ReadPrecip) = 0
        /\ riskLevel = LevelOfScore(TemperatureScore(ReadTemp)
                                    + PrecipBand(ReadPrecip.n)
                                    + WindScore(ReadWind))

\* a precipitation of exactly 70 has been classified together with a wind
\* that scores 1: the total is 2, so the level is medium, not high
C2_Witness ==
    /\ pc = "derived"
    /\ ~ReadPrecip.nan /\ ReadPrecip.n = 70
    /\ TemperatureScore(ReadTemp) = 0 /\ WindScore(ReadWind) = 1
    /\ riskLevel = "medium"

\* C3: for every integer wind speed w the classifier adds 2 when w > 25, 1
\* when 15 < w <= 25 and 0 when w <= 15 (25 scores 1, 15 scores 0), and the
\* level it returns is the level of that score plus the other two.
C3_WindScore ==
    (pc = "derived" /\ ~ReadWind.nan) =>
        /\ WindScore(ReadWind) = WindBand(ReadWind.n)
        /\ ReadWind.n = 25 => WindScore(ReadWind) = 1
        /\ ReadWind.n = 15 => WindScore(ReadWind) = 0
        /\ riskLevel = LevelOfScore(TemperatureScore(ReadTemp)
                                    + PrecipitationScore(ReadPrecip)
                                    + WindBand(ReadWind.n))

\* a wind of exactly 25 has been classified together with a precipitation
\* that scores 1: the total is 2, so the level is medium, not high
C3_Witness ==
    /\ pc = "derived"
    /\ ~ReadWind.nan /\ ReadWind.n = 25
    /\ TemperatureScore(ReadTemp) = 0 /\ PrecipitationScore(ReadPrecip) = 1
    /\ riskLevel = "medium"

\* the provider gave whole numbers for temperature, precipitation and wind
IntegerInputs ==
    LET c == response.data.current
    IN  /\ c.temperature.def /\ c.temperature.n % 10 = 0
        /\ c.precip.def /\ c.precip.n % 10 = 0
        /\ c.wind_speed.def /\ c.wind_speed.n % 10 = 0

\* C4: calculateRiskLevel is total: every Reading gets exactly one of low,
\* medium, high; with integer temperature, precipitation and wind the score
\* is the sum of the three bands, lies in 0..6, and gives high when >= 3,
\* medium when 1 or 2, low when 0.  Reading (38, 80, 30) scores 6 and is
\* high, Reading (20, 0, 0) scores 0 and is low.
C4_RiskLevelTotal ==
    pc = "derived" =>
        /\ riskLevel \in {"low", "medium", "high"}
        /\ IntegerInputs =>
            LET score == TempBand(ReadTemp.n) + PrecipBand(ReadPrecip.n)
                         + WindBand(ReadWind.n)
            IN  /\ score \in 0..6
                /\ RiskScore(Reading) = score
                /\ riskLevel = "high" <=> score >= 3
                /\ riskLevel = "medium" <=> score \in {1, 2}
                /\ riskLevel = "low" <=> score = 0
                /\ (ReadTemp.n = 38 /\ ReadPrecip.n = 80 /\ ReadWind.n = 30)
                      => (score = 6 /\ riskLevel = "high")
                /\ (ReadTemp.n = 20 /\ ReadPrecip.n = 0 /\ ReadWind.n = 0)
                      => (score = 0 /\ riskLevel = "low")

\* the Reading (38, 80, 30) has been classified as high
C4_Witness ==
    /\ pc = "derived" /\ IntegerInputs
    /\ ReadTemp.n = 38 /\ ReadPrecip.n = 80 /\ ReadWind.n = 30
    /\ RiskScore(Reading) = 6
    /\ riskLevel = "high"

\* the raw uv_index of the payload, and the whole number read back from the
\* Reading's uvIndex text
RawUv == response.data.current.uv_index

ReadUv == ParseInt(Reading.uvIndex)

\* C5: whatever the raw uv_index of a payload with a current section is
\* (negative, zero, fractional, missing, above 11), the uvIndex put in the
\* Reading is an integer in 1..11.
C5_UvIndexInRange ==
    HasReading =>
        /\ Reading.uvIndex.v.def
        /\ Reading.uvIndex.v.n % 10 = 0
        /\ ~ReadUv.nan
        /\ ReadUv.n \in 1..11

\* a Reading has been returned for a negative fractional raw uv_index, and
\* one would be for a fractional raw uv_index above 11
C5_Witness ==
    /\ HasReading
    /\ RawUv.def /\ RawUv.n < 0 /\ RawUv.n % 10 # 0
    /\ ReadUv.n = 1
    /\ \E resp \in Responses :
        /\ resp.data.current.uv_index.n > 110
        /\ resp.data.current.uv_index.n % 10 # 0
        /\ ~getWeatherData(resp).threw

\* clamp(x, lo, hi)
Clamp(x, lo, hi) == IF x < lo THEN lo ELSE IF x > hi THEN hi ELSE x

\* C6: the normalized uvIndex is clamp(round(rawUv ?? 5), 1, 11): the
\* default 5 replaces an absent raw value only, so a raw uv_index of 0
\* normalizes to 1.
C6_UvNullishDefault ==
    HasReading =>
        /\ ReadUv.n = Clamp(MathRound(IF RawUv.def THEN RawUv.n ELSE 50), 1, 11)
        /\ (RawUv.def /\ RawUv.n = 0) => ReadUv.n = 1

\* C7: getWeatherData returns a Reading only when the payload has no error
\* object and has a current section; with an error object (a current
\* section present or not) it fails with the provider's error; with neither
\* it fails with the invalid-format error.
C7_PayloadOutcome ==
    (pc # "idle" /\ response.ok /\ response.json) =>
        LET d == response.data
        IN  /\ ~result.threw <=> (~d.error.def /\ d.current.def)
            /\ ~result.threw => (Len(result.value) = 1 /\ result.error = <<>>)
            /\ d.error.def =>
                /\ result.threw
                /\ result.value = <<>>
                /\ result.error =
                     <<IF d.error.info.def /\ d.error.info.s # ""
                       THEN d.error.info.s ELSE "Unknown API error">>
            /\ (~d.error.def /\ ~d.current.def) =>
                /\ result.threw
                /\ result.value = <<>>
                /\ result.error = <<"Invalid response format from weather API">>

\* a payload with an error object and a current section has failed with the
\* provider's message
C7_Witness ==
    /\ pc = "failed"
    /\ response.ok /\ response.json
    /\ response.data.error.def /\ response.data.current.def
    /\ result.error = <<"Invalid access key">>

\* the descriptions list of the payload
RawDescriptions == response.data.current.weather_descriptions

\* the precipitation and wind parts of C8: the provider's value, or 0 when
\* the value is absent
PrecipAndWindPassThrough ==
    LET c == response.data.current
    IN  /\ Reading.precipitation.v = (IF c.precip.def THEN c.precip ELSE Num(0))
        /\ Reading.windSpeed.v = (IF c.wind_speed.def THEN c.wind_speed ELSE Num(0))

\* C8 as stated: the condition is the first entry of weather_descriptions, or
\* "Unknown" when the list is absent or empty; precipitation and wind speed
\* are the provider's values, or 0 when absent.
C8_ConditionFirstEntry ==
    HasReading =>
        /\ Reading.condition =
             (IF RawDescriptions.def /\ Len(RawDescriptions.list) > 0
              THEN RawDescriptions.list[1] ELSE "Unknown")
        /\ PrecipAndWindPassThrough

\* C8 amended: the condition is the first entry of weather_descriptions, or
\* "Unknown" when the list is absent or empty or its first entry is the
\* empty string; precipitation and wind speed are the provider's values, or
\* 0 when absent.
C8_ConditionFirstNonEmptyEntry ==
    HasReading =>
        /\ Reading.condition =
             (IF /\ RawDescriptions.def
                 /\ Len(RawDescriptions.list) > 0
                 /\ RawDescriptions.list[1] # ""
              THEN RawDescriptions.list[1] ELSE "Unknown")
        /\ PrecipAndWindPassThrough

\* a Reading has been returned for a list whose first entry is empty and for
\* absent precipitation and wind speed
C8_Witness ==
    /\ HasReading
    /\ RawDescriptions.def /\ RawDescriptions.list = <<"">>
    /\ ~response.data.current.precip.def
    /\ ~response.data.current.wind_speed.def
    /\ Reading.condition = "Unknown"
    /\ Reading.precipitation.v = Num(0)
    /\ Reading.windSpeed.v = Num(0)

\* C9: every field of a returned Reading holds a defined value or a safe
\* placeholder, the temperature included, so that the classifier and the
\* packing list always read a number from it.
C9_NoUndefinedField ==
    HasReading =>
        /\ Reading.temperature.v.def
        /\ ~ReadTemp.nan
        /\ Reading.condition # ""
        /\ Reading.precipitation.v.def /\ ~ReadPrecip.nan
        /\ Reading.windSpeed.v.def /\ ~ReadWind.nan
        /\ Reading.uvIndex.v.def /\ ~ReadUv.nan

ProviderNotification ==
    <<"Weather API error: ",
      IF response.data.error.info.def /\ response.data.error.info.s # ""
      THEN response.data.error.info.s ELSE "Unknown error">>

RuleOrder ==
    <<"Water bottle", "Umbrella", "Waterproof jacket", "Warm jacket", "Blanket",
      "Hat", "Light clothing", "Sunscreen", "Sunglasses", "Windbreaker">>

\* the items of a list, as a set
Items(list) == {list[i] : i \in 1..Len(list)}

\* where an item stands in the rule order
RulePosition(item) == CHOOSE i \in 1..Len(RuleOrder) : RuleOrder[i] = item

\* C11: for every Reading the packing list starts with "Water bottle" and is
\* a subsequence of the rule order Water bottle, Umbrella, Waterproof jacket,
\* Warm jacket, Blanket, Hat, Light clothing, Sunscreen, Sunglasses,
\* Windbreaker: nothing is sorted.
C11_PackingListInRuleOrder ==
    pc = "derived" =>
        /\ Len(packingList) >= 1
        /\ packingList[1] = "Water bottle"
        /\ Items(packingList) \subseteq Items(RuleOrder)
        /\ \A i, j \in 1..Len(packingList) :
              i < j => RulePosition(packingList[i]) < RulePosition(packingList[j])

\* a hot, wet, sunny and windy Reading has got all eight of its items, the
\* windbreaker last
C11_Witness ==
    /\ pc = "derived"
    /\ Len(packingList) = 8
    /\ packingList[6] = "Sunscreen"
    /\ packingList[8] = "Windbreaker"
    /\ "Hat" \in Items(packingList)

\* the items C12 lets a Reading with whole-number fields have
ExpectedItems(temp, precip, wind, uv) ==
    {"Water bottle"}
    \cup (IF precip > 20 THEN {"Umbrella", "Waterproof jacket"} ELSE {})
    \cup (IF temp < 15 THEN {"Warm jacket", "Blanket"} ELSE {})
    \cup (IF temp > 25 THEN {"Hat", "Light clothing"} ELSE {})
    \cup (IF uv > 5 THEN {"Sunscreen", "Sunglasses"} ELSE {})
    \cup (IF wind > 15 THEN {"Windbreaker"} ELSE {})

\* C12: for every Reading with integer fields the packing list holds
\* Umbrella and Waterproof jacket iff precipitation > 20, Warm jacket and
\* Blanket iff temperature < 15, Hat and Light clothing iff temperature > 25,
\* Sunscreen and Sunglasses iff uvIndex > 5, Windbreaker iff wind > 15, and
\* nothing else besides Water bottle; 20, 15, 25, 5 and 15 themselves add
\* nothing.  (20, 0, 0, uv 1) gives [Water bottle]; (10, 25, 5, uv 3) gives
\* [Water bottle, Umbrella, Waterproof jacket, Warm jacket, Blanket].
C12_PackingListRules ==
    (pc = "derived" /\ ~ReadTemp.nan) =>
        LET t == ReadTemp.n
            p == ReadPrecip.n
            w == ReadWind.n
            u == ReadUv.n
        IN  /\ Items(packingList) = ExpectedItems(t, p, w, u)
            /\ (p = 20 /\ t \in 15..25 /\ u = 5 /\ w = 15)
                  => packingList = <<"Water bottle">>
            /\ (t = 20 /\ p = 0 /\ w = 0 /\ u = 1)
                  => packingList = <<"Water bottle">>
            /\ (t = 10 /\ p = 25 /\ w = 5 /\ u = 3)
                  => packingList = <<"Water bottle", "Umbrella",
                                     "Waterproof jacket", "Warm jacket", "Blanket">>

\* the Reading (10, 25, 5, uv 3) has got its five items, and the Reading
\* that sits on every threshold would get the water bottle alone
C12_Witness ==
    /\ pc = "derived"
    /\ ~ReadTemp.nan /\ ReadTemp.n = 10 /\ ReadPrecip.n = 25 /\ ReadWind.n = 5
    /\ ReadUv.n = 3
    /\ Len(packingList) = 5
    /\ \E resp \in Responses :
        /\ resp.data.current.temperature = Num(150)
        /\ resp.data.current.precip = Num(200)
        /\ resp.data.current.wind_speed = Num(150)
        /\ resp.data.current.uv_index = Num(50)
        /\ generatePackingList(getWeatherData(resp).value[1]) = <<"Water bottle">>

\* a list holds some item more than once
HasDuplicate(list) ==
    \E i, j \in 1..Len(list) : i # j /\ list[i] = list[j]

\* C13 as stated: duplicates are possible: some Reading gets a packing list
\* that holds the same item more than once.
C13_DuplicatePossible ==
    pc = "idle" =>
        \E resp \in Responses :
            /\ ~getWeatherData(resp).threw
            /\ HasDuplicate(generatePackingList(getWeatherData(resp).value[1]))

\* C13 amended: generatePackingList does not deduplicate and has no need to:
\* every item is pushed by one rule only, so no returned list holds the
\* same item more than once.
C13_NoDuplicateItem ==
    pc = "derived" =>
        /\ ~HasDuplicate(packingList)
        /\ Cardinality(Items(packingList)) = Len(packingList)

\* a cold, wet, sunny and windy Reading has got eight different items
C13_Witness ==
    /\ pc = "derived"
    /\ Len(packingList) = 8
    /\ "Blanket" \in Items(packingList)
    /\ "Waterproof jacket" \in Items(packingList)
    /\ "Windbreaker" \in Items(packingList)
    /\ Cardinality(Items(packingList)) = 8

\* the labels and the risks of the returned slots
SlotTimes == [i \in 1..Len(timeSlots) |-> timeSlots[i].time]

SlotRisks == [i \in 1..Len(timeSlots) |-> timeSlots[i].risk]

\* C14 as stated: exactly 3 entries, labelled 10:00, 12:00, 14:00 in that
\* order; the 16:00 and 18:00 candidates are never returned.
C14_ThreeSlots24h ==
    pc = "derived" =>
        /\ Len(timeSlots) = 3
        /\ SlotTimes = <<"10:00", "12:00", "14:00">>

\* C14 amended: exactly 3 entries, whose labels are the strings "10:00 AM",
\* "12:00 PM", "2:00 PM" in that order; the "4:00 PM" and "6:00 PM"
\* candidates are never returned.
C14_ThreeSlots12h ==
    pc = "derived" =>
        /\ Len(timeSlots) = 3
        /\ SlotTimes = <<"10:00 AM", "12:00 PM", "2:00 PM">>
        /\ \A i \in 1..Len(timeSlots) :
              timeSlots[i].time \notin {"4:00 PM", "6:00 PM", "16:00", "18:00"}

\* a high-risk Reading, whose 4:00 PM candidate is high too, has got its
\* three slots
C14_Witness ==
    /\ pc = "derived"
    /\ riskLevel = "high"
    /\ Len(timeSlots) = 3
    /\ timeSlots[3].time = "2:00 PM"

\* the level C1..C4 give the Reading, from the bands of its three factors
BandLevel ==
    LET score == (IF ReadTemp.nan THEN 0 ELSE TempBand(ReadTemp.n))
                 + PrecipBand(ReadPrecip.n) + WindBand(ReadWind.n)
    IN  IF score >= 3 THEN "high" ELSE IF score >= 1 THEN "medium" ELSE "low"

\* C15: for every Reading the risks of the three slots are [low, b, b] with
\* b the classifier's level for the same Reading: the first slot is low
\* whatever the weather.
C15_SlotRisks ==
    pc = "derived" =>
        /\ SlotRisks = <<"low", riskLevel, riskLevel>>
        /\ SlotRisks = <<"low", BandLevel, BandLevel>>

\* a medium-risk Reading has got the slots low, medium, medium
C15_Witness ==
    /\ pc = "derived"
    /\ riskLevel = "medium"
    /\ SlotRisks = <<"low", "medium", "medium">>

----------------------------------------------------------------------------
(* Properties of the edit machine *)

\* the weather-derived fields an updatedEvent has
DerivedFields(updatedEvent) ==
    <<updatedEvent.riskLevel, updatedEvent.packingList, updatedEvent.timeSlots>>

HasNoWeatherField(updatedEvent) ==
    /\ updatedEvent.weather = <<>>
    /\ updatedEvent.riskLevel = <<>>
    /\ updatedEvent.packingList = <<>>
    /\ updatedEvent.timeSlots = <<>>

HasEveryWeatherField(updatedEvent) ==
    /\ Len(updatedEvent.weather) = 1
    /\ Len(updatedEvent.riskLevel) = 1
    /\ Len(updatedEvent.packingList) = 1
    /\ Len(updatedEvent.timeSlots) = 1

\* C16: the three derivations are deterministic and history-free: two Saves
\* whose fetch returned identical Readings have identical risk level,
\* packing list and time slots, whatever ran in between and whatever events
\* and currentEventId held when each was derived; so has a stored event
\* with that Reading.
C16_SameReadingSameOutputs ==
    /\ \A i, j \in 1..Len(saves) :
          (saves[i].weatherData # <<>> /\ saves[i].weatherData = saves[j].weatherData)
              => DerivedFields(saves[i].updatedEvent)
                   = DerivedFields(saves[j].updatedEvent)
    /\ \A i \in 1..Len(saves) : \A id \in EventIds :
          saves[i].weatherData = <<events[id].weather>>
              => DerivedFields(saves[i].updatedEvent)
                   = << <<events[id].riskLevel>>, <<events[id].packingList>>,
                        <<events[id].timeSlots>> >>

\* two Saves have derived from the same stormy Reading, the first before
\* and the second after the stored event and currentEventId changed
C16_Witness ==
    /\ Len(saves) = 2
    /\ saves[1].at = "done"
    /\ saves[2].at = "updating"
    /\ saves[1].weatherData = <<FormatReading(StormCurrent)>>
    /\ saves[2].weatherData = saves[1].weatherData
    /\ saves[2].updatedEvent.riskLevel = <<"high">>
    /\ events[1].riskLevel = "high"
    /\ events # InitialEvents
    /\ currentEventId = 1

\* the form a Save submitted differs from the event in location or date
SubmittedChange(sv) ==
    \/ sv.updatedEvent.location # sv.event.location
    \/ sv.updatedEvent.date # sv.event.date

C18_NoUpdateAfterFailedFetch ==
    /\ \A i \in 1..Len(saves) :
          saves[i].error # <<>> =>
              /\ saves[i].at = "failed"
              /\ saves[i].updateCalls = 0
              /\ HasNoWeatherField(saves[i].updatedEvent)
    /\ (\A i \in 1..Len(saves) : saves[i].at # "done") => events = InitialEvents
    /\ \A i \in 1..Len(saves) : saves[i].at = "done" => saves[i].error = <<>>

\* two Saves have failed, one on an error object and one on a missing
\* current section, and the stored events are as loaded
C18_Witness ==
    /\ Len(saves) = 2
    /\ saves[1].at = "failed" /\ saves[1].error = <<"Invalid access key">>
    /\ saves[2].at = "failed"
    /\ saves[2].error = <<"Invalid response format from weather API">>
    /\ saves[1].updateCalls = 0 /\ saves[2].updateCalls = 0
    /\ events = InitialEvents

\* C19: while a weather fetch started by a Save of an event is pending, no
\* other fetch or derivation for that event is in flight: a second click on
\* Save does not start a second getWeatherData call or a second updateEvent.
C19_OneSaveInFlight ==
    \A i, j \in 1..Len(saves) :
        (i # j /\ saves[i].event.id = saves[j].event.id
               /\ saves[i].at = "fetching")
            => saves[j].at \notin {"fetching", "updating"}

\* C20: in every Save the three derivations run only after the
\* getWeatherData call of that Save has returned, and on the Reading it
\* returned; they never run after a failed fetch, nor before the fetch ends.
C20_DeriveAfterOwnFetch ==
    \A i \in 1..Len(saves) :
        LET sv == saves[i]
        IN  /\ sv.weatherData = <<>> => HasNoWeatherField(sv.updatedEvent)
            /\ sv.at \in {"rejected", "fetching", "failed"}
                  => HasNoWeatherField(sv.updatedEvent)
            /\ sv.weatherData # <<>> =>
                  /\ sv.fetches = 1
                  /\ sv.error = <<>>
                  /\ sv.at \in {"updating", "done"}
                  /\ sv.updatedEvent.weather = sv.weatherData
                  /\ sv.updatedEvent.riskLevel
                       = <<calculateRiskLevel(sv.weatherData[1])>>
                  /\ sv.updatedEvent.packingList
                       = <<generatePackingList(sv.weatherData[1])>>
                  /\ sv.updatedEvent.timeSlots
                       = <<generateTimeSlots(sv.weatherData[1])>>

\* of two Saves in flight together, one has failed and has no derived field,
\* the other has derived high from the stormy Reading its own call returned
C20_Witness ==
    /\ Len(saves) = 2
    /\ saves[1].at = "failed"
    /\ HasNoWeatherField(saves[1].updatedEvent)
    /\ saves[2].at = "updating"
    /\ saves[2].weatherData = <<FormatReading(StormCurrent)>>
    /\ saves[2].updatedEvent.riskLevel = <<"high">>

\* the form a Save submitted
SubmittedForm(sv) == FormOf(sv.updatedEvent)

Blank(str) == str \in {"", " ", "  "}

\* name and location non-blank, date and time given, and the selected
\* instant strictly later than the instant of the click
FormIsValid(form) ==
    /\ ~Blank(form.name)
    /\ ~Blank(form.location)
    /\ form.date # ""
    /\ form.time # ""
    /\ Instant(form.date, form.time) > Now

\* C21: validateForm returns true exactly when name and location are
\* non-blank after trimming, date and time are non-empty and the selected
\* date/time is strictly later than the current time; a Save whose
\* validation does not pass calls neither getWeatherData nor updateEvent.
C21_ValidationGate ==
    \A i \in 1..Len(saves) :
        LET sv == saves[i]
        IN  /\ validateForm(SubmittedForm(sv)).ok <=> FormIsValid(SubmittedForm(sv))
            /\ sv.at = "rejected" <=> ~FormIsValid(SubmittedForm(sv))
            /\ ~FormIsValid(SubmittedForm(sv)) =>
                  /\ sv.fetches = 0
                  /\ sv.updateCalls = 0
                  /\ sv.weatherData = <<>>
                  /\ HasNoWeatherField(sv.updatedEvent)

\* a Save submitted the very instant of the click and was rejected, another
\* submitted two hours later and is fetching, and the events are as loaded
C21_Witness ==
    /\ Len(saves) = 2
    /\ SubmittedForm(saves[1]).date = "2026-11-03"
    /\ SubmittedForm(saves[1]).time = "12:00"
    /\ saves[1].at = "rejected"
    /\ SubmittedForm(saves[2]).date = "2026-11-03"
    /\ SubmittedForm(saves[2]).time = "14:00"
    /\ saves[2].at = "fetching"
    /\ events = InitialEvents

----------------------------------------------------------------------------
(* Properties of the failing paths of getWeatherData *)

\* the payload read carries an error object
ErrorObjectRead ==
    /\ pc = "failed"
    /\ response.ok /\ response.json
    /\ response.data.error.def

\* the payload read has neither an error object nor a current section
CurrentMissing ==
    /\ pc = "failed"
    /\ response.ok /\ response.json
    /\ ~response.data.error.def /\ ~response.data.current.def

HasInfo == response.data.error.info.def /\ response.data.error.info.s # ""

\* C22: when the payload carries an error object the user is shown the
\* provider's message when the error has one, and one fallback message only
\* when it has none; the generic message is not shown in addition to the
\* provider's.
C22_ProviderMessageOnly ==
    ErrorObjectRead =>
        /\ Len(toasts) = 1
        /\ HasInfo => toasts = <<ProviderNotification>>
        /\ \A i \in 1..Len(toasts) : HasInfo => toasts[i] # GenericFetchMessage

\* C23: a payload that lacks the current section and a payload that carries
\* an error object give the same user-visible outcome: the call with the
\* error object shows as many notifications as the same call with neither
\* section shows, and both fail.
C23_SameOutcomeAsMissingCurrent ==
    ErrorObjectRead =>
        LET other == getWeatherData([response EXCEPT !.data = NoPayload])
        IN  /\ result.threw /\ other.threw
            /\ Len(toasts) = Len(other.shown)

\* C24: on a non-success transport status getWeatherData never reads or
\* normalizes the body, whatever it carries: it shows the generic "check
\* your API key and connection" message alone, fails with the status error
\* and returns no Reading, so nothing is derived.
C24_TransportFailure ==
    (pc # "idle" /\ response.fetch = "resolved" /\ ~response.ok) =>
        /\ pc = "failed"
        /\ result.threw
        /\ result.value = <<>>
        /\ result.error = <<"API responded with status ", response.status>>
        /\ toasts = << <<"Failed to fetch weather data. Please check your API key and connection.">> >>
        /\ riskLevel = "none" /\ packingList = <<>> /\ timeSlots = <<>>

\* a response with status 401 whose body holds a current section has
\* failed with the status error and the generic message
C24_Witness ==
    /\ pc = "failed"
    /\ response.status = "401"
    /\ response.json /\ response.data.current.def
    /\ result.error = <<"API responded with status ", "401">>
    /\ Len(toasts) = 1

----------------------------------------------------------------------------
(* Frame properties *)

\* C25: the three derivations leave the Reading they are given unchanged
\* and return fresh values, and the Save handler never modifies the existing
\* event record itself: in every step the record a handler closed over and
\* the Reading its call returned stay as they were, the Reading kept in the
\* update is the Reading returned, and the stored events change only by the
\* updateEvent call merging the update object of a Save.
C25_NoInPlaceChange ==
    [][ /\ \A i \in 1..Len(saves) :
            /\ saves'[i].event = saves[i].event
            /\ saves[i].weatherData # <<>> =>
                  /\ saves'[i].weatherData = saves[i].weatherData
                  /\ saves'[i].updatedEvent = saves[i].updatedEvent
                  /\ saves[i].updatedEvent.weather = saves[i].weatherData
        /\ events' # events =>
            \E i \in 1..Len(saves) :
                /\ saves[i].at = "updating"
                /\ saves'[i].at = "done"
                /\ events' = [events EXCEPT ![saves[i].event.id]
                                 = MergeUpdate(@, saves[i].updatedEvent)]
      ]_vars

\* a Save of a new location has been merged by updateEvent, the record its
\* handler closed over still holds the old location and the Reading in the
\* update is the one the call returned
C25_Witness ==
    /\ Len(saves) >= 1
    /\ saves[1].at = "done"
    /\ saves[1].event.location = "Nairobi"
    /\ saves[1].updatedEvent.location = "Mombasa"
    /\ events[1].location = "Mombasa"
    /\ saves[1].weatherData = <<FormatReading(StormCurrent)>>
    /\ saves[1].updatedEvent.weather = saves[1].weatherData
    /\ events[1].weather = FormatReading(StormCurrent)

----------------------------------------------------------------------------
(* Properties of the UV band and relations of the classifier *)

\* the band each normalized uvIndex is to get
ExpectedUvBand ==
    [u \in 1..11 |->
        CASE u \in {1, 2} -> "Low"
          [] u \in {3, 4, 5} -> "Moderate"
          [] u \in {6, 7} -> "High"
          [] u \in {8, 9, 10} -> "Very High"
          [] u = 11 -> "Extreme"]

UvBands == {"Low", "Moderate", "High", "Very High", "Extreme"}

\* the band attached to the Reading's uvIndex text
ReadUvBand == Reading.uvIndex.suffix[2]

\* C26: for every normalized uvIndex in 1..11 the band attached to the
\* Reading is Low for 1-2, Moderate for 3-5, High for 6-7, Very High for
\* 8-10 and Extreme for 11, and Extreme is produced only for 11.
C26_UvBand ==
    HasReading =>
        /\ ReadUv.n \in 1..11
        /\ ReadUvBand = ExpectedUvBand[ReadUv.n]
        /\ ReadUvBand = "Extreme" <=> ReadUv.n = 11

\* a Reading with uvIndex 11 has the band Extreme, and for every uvIndex in
\* 1..11, so for every one of the five bands, some response gives a Reading
\* with it
C26_Witness ==
    /\ HasReading
    /\ ReadUv.n = 11 /\ ReadUvBand = "Extreme"
    /\ \A u \in 1..11 : \E resp \in Responses :
          LET r == getWeatherData(resp)
          IN  /\ ~r.threw
              /\ ParseInt(r.value[1].uvIndex).n = u
              /\ r.value[1].uvIndex.suffix[2] = ExpectedUvBand[u]
    /\ UvBands = {ExpectedUvBand[u] : u \in 1..11}

\* the Readings that agree with the Reading returned on temperature,
\* precipitation and wind speed, with every uvIndex and its band and with
\* several conditions
SameWeatherReadings ==
    {[Reading EXCEPT !.uvIndex = Template(Num(10 * u),
                                          <<" (", ExpectedUvBand[u], ")">>),
                     !.condition = c] :
        u \in 1..11, c \in {"Sunny", "Unknown", "Heavy rain"}}

\* C27: the risk level and the time-slot risks do not depend on uvIndex or
\* condition: every Reading that agrees with the one derived from on
\* temperature, precipitation and wind speed gets the same calculateRiskLevel
\* and the same generateTimeSlots result.
C27_UvAndConditionIgnored ==
    pc = "derived" =>
        \A other \in SameWeatherReadings :
            /\ calculateRiskLevel(other) = riskLevel
            /\ generateTimeSlots(other) = timeSlots

\* a Reading with uvIndex 9 (Very High) is high-risk, and so is the same
\* weather with uvIndex 1 and another condition
C27_Witness ==
    /\ pc = "derived"
    /\ ReadUv.n = 9
    /\ riskLevel = "high"
    /\ \E other \in SameWeatherReadings :
        /\ ParseInt(other.uvIndex).n = 1
        /\ other.condition # Reading.condition
        /\ calculateRiskLevel(other) = "high"

\* the scores of the three factors of the Reading, band by band
FactorScores ==
    << IF ReadTemp.nan THEN 0 ELSE TempBand(ReadTemp.n),
       PrecipBand(ReadPrecip.n), WindBand(ReadWind.n) >>

ScoringFactors == Cardinality({k \in 1..3 : FactorScores[k] > 0})

\* C28: no single factor produces high on its own: when two of the three
\* factors score 0 the level is medium or low however extreme the third is,
\* and high is returned only when at least two factors score above 0.
C28_NoSingleFactorHigh ==
    pc = "derived" =>
        /\ ScoringFactors <= 1 => riskLevel \in {"low", "medium"}
        /\ riskLevel = "high" => ScoringFactors >= 2

\* 50 degrees with no rain and no wind is medium
C28_Witness ==
    /\ pc = "derived"
    /\ ReadTemp.n = 50 /\ ReadPrecip.n = 0 /\ ReadWind.n = 0
    /\ FactorScores = <<2, 0, 0>>
    /\ riskLevel = "medium"

Rank(level) == CASE level = "low" -> 0 [] level = "medium" -> 1 [] level = "high" -> 2

\* C29: calculateRiskLevel is monotone in precipitation and in wind speed:
\* with the other fields of the Reading fixed, no higher precipitation and
\* no higher wind speed gets a lower level, in the order low < medium <
\* high.
C29_MonotoneInPrecipAndWind ==
    pc = "derived" =>
        /\ \A p \in PrecipValues :
              (p.def /\ p.n >= Reading.precipitation.v.n) =>
                  Rank(calculateRiskLevel(
                         [Reading EXCEPT !.precipitation = Template(p, <<"%">>)]))
                    >= Rank(riskLevel)
        /\ \A w \in WindValues :
              (w.def /\ w.n >= Reading.windSpeed.v.n) =>
                  Rank(calculateRiskLevel(
                         [Reading EXCEPT !.windSpeed = Template(w, <<" km/h">>)]))
                    >= Rank(riskLevel)

\* a Reading with wind 24 and nothing else scoring is medium, and the same
\* Reading with wind 25 and with wind 30 is medium too
C29_Witness ==
    /\ pc = "derived"
    /\ ReadWind.n = 24
    /\ FactorScores = <<0, 0, 1>>
    /\ riskLevel = "medium"
    /\ \A w \in {Num(250), Num(300)} :
          w \in WindValues
          /\ calculateRiskLevel(
               [Reading EXCEPT !.windSpeed = Template(w, <<" km/h">>)]) = "medium"

====
